---- MODULE Spec2Model ----
(***************************************************************************)
(* HR Management API (src/main.py): the in-memory employee registry, the   *)
(* leave request store, the leave balance ledger and the status state      *)
(* machine of update_leave_request_status.                                 *)
(*                                                                         *)
(* Dates are day numbers; day 0 is Monday 2025-10-20, so that              *)
(* date.weekday() of day d is d % 7 (0 = Monday .. 5 = Saturday,           *)
(* 6 = Sunday).                                                            *)
(***************************************************************************)
EXTENDS Integers, Sequences, FiniteSets, TLC

\* ---------------------------------------------------------------- bounds
\* create_employee is explored while the id it assigns is at most MaxEmpId
MaxEmpId == 1
\* create_leave_request is explored while leave_db holds fewer requests
MaxRequests == 2
\* number of worker threads serving update_leave_request_status concurrently
NumThreads == 2

\* calculate_business_days is explored on the dates 0..MaxDay (two weeks)
MaxDay == 13

\* ------------------------------------------------------ program constants
DefaultVacation == 15
DefaultSick == 10
DefaultPersonal == 5

PENDING == "pending"
APPROVED == "approved"
REJECTED == "rejected"
LeaveStatus == {PENDING, APPROVED, REJECTED}

VACATION == "vacation"
SICK == "sick"
PERSONAL == "personal"
LeaveType == {VACATION, SICK, PERSONAL}

\* error kinds of the handlers; OK is a normal return
OK == "OK"
NotFound == "NotFound"
InvalidRange == "InvalidRange"
InsufficientBalance == "InsufficientBalance"

\* ------------------------------------------------------------ input sets
\* 0 is an id no employee ever has
EmpIds == 0..(MaxEmpId + 1)
ReqIds == 1..(MaxRequests + 1)
\* CreateEmployee payloads (names need not be unique)
Profiles == {[name |-> "Alice Smith", position |-> "Software Engineer",
              department |-> "Technology"]}
\* <<start_date, end_date>> pairs of CreateLeaveRequest payloads:
\* Mon..Wed (3 business days), Mon..Mon three weeks later (16 business days),
\* Sat..Sun (0 business days), end before start
DateRanges == {<<0, 2>>, <<0, 21>>, <<5, 6>>, <<2, 0>>}
Reasons == {"Family vacation."}
\* leave_type of CreateLeaveRequest payloads: the category with the largest and
\* the one with the smallest default allocation
RequestedTypes == {VACATION, PERSONAL}

\* the dates calculate_business_days is called with
Days == 0..MaxDay

\* ------------------------------------------------------------ data model
LeaveBalance(allocated, used) == [allocated |-> allocated, used |-> used]

\* faulty variant of remaining: the quota left is taken to be the allocation
remaining_of_allocation(balance) == balance.allocated

remaining(balance) == balance.allocated - balance.used

EmployeeBalances ==
    [vacation |-> LeaveBalance(DefaultVacation, 0),
     sick     |-> LeaveBalance(DefaultSick, 0),
     personal |-> LeaveBalance(DefaultPersonal, 0)]

Employee(id, profile, balances) ==
    [id |-> id, name |-> profile.name, position |-> profile.position,
     department |-> profile.department, leave_balances |-> balances]

LeaveRequest(id, employee_id, leave_type, start_date, end_date, reason, st) ==
    [id |-> id, employee_id |-> employee_id, leave_type |-> leave_type,
     start_date |-> start_date, end_date |-> end_date, reason |-> reason,
     status |-> st]

SeedEmployees ==
    << Employee(1, [name |-> "Alice Smith", position |-> "Software Engineer",
                    department |-> "Technology"], EmployeeBalances),
       Employee(2, [name |-> "Bob Johnson", position |-> "HR Manager",
                    department |-> "Human Resources"],
                [vacation |-> LeaveBalance(20, 5),
                 sick     |-> LeaveBalance(10, 1),
                 personal |-> LeaveBalance(DefaultPersonal, 0)]) >>

SeedLeaves ==
    << LeaveRequest(1, 2, VACATION, 0, 2, "Family vacation.", APPROVED) >>

VARIABLES
    employee_db,    \* the list employee_db
    leave_db,       \* the list leave_db
    last,           \* the last handler call: operation, statuses, outcome
    assigned_ids,   \* history: ids handed out by create_employee so far
    deleted_ids,    \* history: ids whose delete_employee succeeded
    approval,       \* history: the request most recently moved to Approved by
                    \*   a call, while it stays Approved, and used of its
                    \*   balance just before that call
    orphans,        \* history: ids of the requests whose employee_id was the
                    \*   id of an employee when delete_employee removed them
    calc,           \* a call of calculate_business_days: arguments and result
    pc,             \* per worker thread: position in update_leave_request_status
    loc,            \* per worker thread: the handler's arguments and locals
    store0          \* the store when the first concurrent call arrived

store == <<employee_db, leave_db>>
history == <<assigned_ids, deleted_ids, approval, orphans>>
threads == <<pc, loc, store0>>
vars == <<employee_db, leave_db, last, assigned_ids, deleted_ids, approval,
          orphans, calc, pc, loc, store0>>

\* ---------------------------------------------------------------- helpers
Max(S) == CHOOSE x \in S : \A y \in S : y <= x

Ids(db) == {db[i].id : i \in 1..Len(db)}

\* index of the first element of db whose id is the given one, 0 if none
\* (the for loops of find_employee and update_leave_request_status)
FirstWithId(db, id) ==
    IF \E i \in 1..Len(db) : db[i].id = id
    THEN CHOOSE i \in 1..Len(db) :
            db[i].id = id /\ \A j \in 1..(i - 1) : db[j].id # id
    ELSE 0

\* faulty variant of find_employee: the id is taken for the position in the list
find_employee_by_position(employee_id) ==
    IF employee_id \in 1..Len(employee_db) THEN employee_id ELSE 0

find_employee(employee_id) == FirstWithId(employee_db, employee_id)

\* faulty variant of Remove: drops the last element, whatever x is
Remove_last(db, x) == SubSeq(db, 1, Len(db) - 1)

\* list.remove(x): drops the first element equal to x
Remove(db, x) ==
    LET k == CHOOSE i \in 1..Len(db) :
                db[i] = x /\ \A j \in 1..(i - 1) : db[j] # x
    IN  [i \in 1..(Len(db) - 1) |-> IF i < k THEN db[i] ELSE db[i + 1]]

\* faulty variant of weekday: the week is taken to start on Sunday
weekday_from_sunday(d) == (d + 1) % 7

weekday(d) == d % 7

calculate_business_days(start_date, end_date) ==
    IF start_date > end_date
    THEN 0
    ELSE LET days == (end_date - start_date) + 1
             weekend_days ==
                 Cardinality({i \in 0..(days - 1) : weekday(start_date + i) >= 5})
         IN  days - weekend_days

Duration(req) == calculate_business_days(req.start_date, req.end_date)

\* what `last` records of a call
Call(op, new, old, err) == [op |-> op, new |-> new, old |-> old, err |-> err]

NoApproval == [id |-> 0, used |-> 0]

\* calculate_business_days is not being called
NoCalc == [start_date |-> 0, end_date |-> 0, result |-> -1]

Idle == [request_id |-> 0, status |-> "-", req |-> 0, emp |-> 0,
         duration |-> 0, used |-> 0, err |-> "-"]

\* ------------------------------------------------------------------- Init
\* the module-level lists of lines 67-77, before any request is served
InitStore ==
    /\ employee_db = SeedEmployees
    /\ leave_db = SeedLeaves
    /\ last = Call("-", "-", "-", OK)
    /\ assigned_ids = {}
    /\ deleted_ids = {}
    /\ approval = NoApproval
    /\ orphans = {}
    /\ pc = [t \in 1..NumThreads |-> "idle"]
    /\ loc = [t \in 1..NumThreads |-> Idle]
    /\ store0 = << >>

Init ==
    /\ InitStore
    /\ calc = NoCalc

\* ------------------------------------------------------ employee handlers
NewEmployeeId ==
    IF employee_db # << >> THEN Max(Ids(employee_db)) + 1 ELSE 1

create_employee(employee_data) ==
    LET new_id == NewEmployeeId
        new_employee == Employee(new_id, employee_data, EmployeeBalances)
    IN  /\ new_id <= MaxEmpId
        /\ employee_db' = Append(employee_db, new_employee)
        /\ last' = Call("create_employee", "-", "-", OK)
        /\ UNCHANGED leave_db

\* faulty variant of update_employee: the record is rebuilt from the payload,
\* with the default balances
update_employee_rebuilds(employee_id, updated_data) ==
    LET e == find_employee(employee_id)
    IN  IF e = 0
        THEN /\ last' = Call("update_employee", "-", "-", NotFound)
             /\ UNCHANGED store
        ELSE /\ employee_db' =
                   [employee_db EXCEPT
                      ![e] = Employee(employee_id, updated_data, EmployeeBalances)]
             /\ last' = Call("update_employee", "-", "-", OK)
             /\ UNCHANGED leave_db

update_employee(employee_id, updated_data) ==
    LET e == find_employee(employee_id)
    IN  IF e = 0
        THEN /\ last' = Call("update_employee", "-", "-", NotFound)
             /\ UNCHANGED store
        ELSE /\ employee_db' =
                   [employee_db EXCEPT ![e].name = updated_data.name,
                                       ![e].position = updated_data.position,
                                       ![e].department = updated_data.department]
             /\ last' = Call("update_employee", "-", "-", OK)
             /\ UNCHANGED leave_db

delete_employee(employee_id) ==
    LET e == find_employee(employee_id)
    IN  IF e = 0
        THEN /\ last' = Call("delete_employee", "-", "-", NotFound)
             /\ UNCHANGED store
        ELSE /\ employee_db' = Remove(employee_db, employee_db[e])
             /\ last' = Call("delete_employee", "-", "-", OK)
             /\ UNCHANGED leave_db

\* read-only handlers: what the call returns in the current state
get_all_employees == employee_db

get_employee_by_id(employee_id) ==
    LET e == find_employee(employee_id)
    IN  IF e = 0 THEN [err |-> NotFound] ELSE [err |-> OK, value |-> employee_db[e]]

\* --------------------------------------------------------- leave handlers
\* faulty variant of NewRequestId: the + 1 is missing
NewRequestId_is_max ==
    IF leave_db # << >> THEN Max(Ids(leave_db)) ELSE 1

NewRequestId ==
    IF leave_db # << >> THEN Max(Ids(leave_db)) + 1 ELSE 1

\* faulty variant of Validate: the duration is not checked
Validate_any_duration(e, leave_type, leave_duration) ==
    IF e = 0 THEN NotFound
    ELSE IF remaining(employee_db[e].leave_balances[leave_type]) < leave_duration
    THEN InsufficientBalance
    ELSE OK

\* lines 156-166: the outcome of the checks made before the request is stored
Validate(e, leave_type, leave_duration) ==
    IF e = 0 THEN NotFound
    ELSE IF leave_duration <= 0 THEN InvalidRange
    ELSE IF remaining(employee_db[e].leave_balances[leave_type]) < leave_duration
    THEN InsufficientBalance
    ELSE OK

\* faulty variant of create_leave_request: the quota is consumed at creation
create_leave_request_debits(employee_id, leave_type, start_date, end_date, reason) ==
    LET e == find_employee(employee_id)
        leave_duration == calculate_business_days(start_date, end_date)
        err == Validate(e, leave_type, leave_duration)
        new_request == LeaveRequest(NewRequestId, employee_id, leave_type,
                                    start_date, end_date, reason, PENDING)
    IN  /\ Len(leave_db) < MaxRequests
        /\ leave_db' = IF err = OK THEN Append(leave_db, new_request) ELSE leave_db
        /\ last' = Call("create_leave_request", "-", "-", err)
        /\ employee_db' =
              IF err = OK
              THEN [employee_db EXCEPT ![e].leave_balances[leave_type].used =
                                           @ + leave_duration]
              ELSE employee_db

create_leave_request(employee_id, leave_type, start_date, end_date, reason) ==
    LET e == find_employee(employee_id)
        leave_duration == calculate_business_days(start_date, end_date)
        err == Validate(e, leave_type, leave_duration)
        new_request == LeaveRequest(NewRequestId, employee_id, leave_type,
                                    start_date, end_date, reason, PENDING)
    IN  /\ Len(leave_db) < MaxRequests
        /\ leave_db' = IF err = OK THEN Append(leave_db, new_request) ELSE leave_db
        /\ last' = Call("create_leave_request", "-", "-", err)
        /\ UNCHANGED employee_db

\* faulty variant of is_newly_approved: the old status is not looked at
is_newly_approved_always(new, old) == new = APPROVED

is_newly_approved(new, old) == new = APPROVED /\ old # APPROVED

\* faulty variant of was_previously_approved: Approved -> Pending is forgotten
was_previously_approved_rejected(new, old) == old = APPROVED /\ new = REJECTED

was_previously_approved(new, old) == old = APPROVED /\ new # APPROVED

\* faulty variant of Adjusted: every move to a status other than Approved
\* gives the days back
Adjusted_reclaims_always(used, leave_duration, new, old) ==
    IF is_newly_approved(new, old) THEN used + leave_duration
    ELSE IF new # APPROVED THEN used - leave_duration
    ELSE used

\* balance.used after the if / elif of lines 204-211
Adjusted(used, leave_duration, new, old) ==
    IF is_newly_approved(new, old) THEN used + leave_duration
    ELSE IF was_previously_approved(new, old) THEN used - leave_duration
    ELSE used

\* faulty variant of UpdateStatus: the employee is looked up only when a
\* balance has to be written
UpdateStatus_resolves_late(edb, ldb, request_id, new_status) ==
    LET r == FirstWithId(ldb, request_id)
        failed(err, old) ==
            [err |-> err, old |-> old, employee_db |-> edb, leave_db |-> ldb]
    IN  IF r = 0 THEN failed(NotFound, "-")
        ELSE
        LET req == ldb[r]
            e == FirstWithId(edb, req.employee_id)
            written == [ldb EXCEPT ![r].status = new_status]
        IN  IF /\ ~is_newly_approved(new_status, req.status)
               /\ ~was_previously_approved(new_status, req.status)
            THEN [err |-> OK, old |-> req.status, employee_db |-> edb,
                  leave_db |-> written]
            ELSE IF e = 0 THEN failed(NotFound, req.status)
            ELSE
            LET leave_duration == Duration(req)
                balance == edb[e].leave_balances[req.leave_type]
            IN  IF is_newly_approved(new_status, req.status)
                   /\ remaining(balance) < leave_duration
                THEN failed(InsufficientBalance, req.status)
                ELSE [err |-> OK, old |-> req.status,
                      employee_db |->
                          [edb EXCEPT ![e].leave_balances[req.leave_type].used =
                              Adjusted(@, leave_duration, new_status, req.status)],
                      leave_db |-> written]

\* update_leave_request_status run from start to end on the store <<edb, ldb>>:
\* the outcome and the store it leaves
UpdateStatus(edb, ldb, request_id, new_status) ==
    LET r == FirstWithId(ldb, request_id)
        failed(err, old) ==
            [err |-> err, old |-> old, employee_db |-> edb, leave_db |-> ldb]
    IN  IF r = 0 THEN failed(NotFound, "-")
        ELSE
        LET req == ldb[r]
            e == FirstWithId(edb, req.employee_id)
        IN  IF e = 0 THEN failed(NotFound, req.status)
            ELSE
            LET leave_duration == Duration(req)
                balance == edb[e].leave_balances[req.leave_type]
            IN  IF is_newly_approved(new_status, req.status)
                   /\ remaining(balance) < leave_duration
                THEN failed(InsufficientBalance, req.status)
                ELSE [err |-> OK, old |-> req.status,
                      employee_db |->
                          [edb EXCEPT ![e].leave_balances[req.leave_type].used =
                              Adjusted(@, leave_duration, new_status, req.status)],
                      leave_db |-> [ldb EXCEPT ![r].status = new_status]]

update_leave_request_status(request_id, new_status) ==
    LET out == UpdateStatus(employee_db, leave_db, request_id, new_status)
    IN  /\ employee_db' = out.employee_db
        /\ leave_db' = out.leave_db
        /\ last' = Call("update_leave_request_status", new_status, out.old, out.err)

\* ------------------------------------------------------------------ Next
\* Handlers run one at a time, each from start to end.  The history
\* variables and the worker threads are not part of this specification.
Quiet == UNCHANGED <<history, threads, calc>>

Next ==
    \/ \E p \in Profiles : create_employee(p) /\ Quiet
    \/ \E id \in EmpIds, p \in Profiles : update_employee(id, p) /\ Quiet
    \/ \E id \in EmpIds : delete_employee(id) /\ Quiet
    \/ \E id \in EmpIds, t \in RequestedTypes, d \in DateRanges, why \in Reasons :
          create_leave_request(id, t, d[1], d[2], why) /\ Quiet
    \/ \E id \in ReqIds, s \in LeaveStatus :
          update_leave_request_status(id, s) /\ Quiet

Spec == Init /\ [][Next]_vars

\* ------------------------------------------- the same, with the read calls
get_employee_leave_balance(employee_id) ==
    LET e == find_employee(employee_id)
    IN  IF e = 0 THEN [err |-> NotFound]
        ELSE [err |-> OK, value |-> employee_db[e].leave_balances]

\* status is "-" when the query parameter is absent
get_all_leave_requests(status) ==
    IF status # "-"
    THEN SelectSeq(leave_db, LAMBDA req : req.status = status)
    ELSE leave_db

get_employee_leave_requests(employee_id) ==
    LET e == find_employee(employee_id)
    IN  IF e = 0 THEN [err |-> NotFound]
        ELSE [err |-> OK,
              value |-> SelectSeq(leave_db, LAMBDA req : req.employee_id = employee_id)]

\* a read-only handler is served: it returns out and writes nothing
Serve(op, out) ==
    /\ last' = Call(op, "-", "-", out.err)
    /\ UNCHANGED store

NextReads ==
    \/ \E p \in Profiles : create_employee(p) /\ Quiet
    \/ \E id \in EmpIds, p \in Profiles : update_employee(id, p) /\ Quiet
    \/ \E id \in EmpIds : delete_employee(id) /\ Quiet
    \/ \E id \in EmpIds, t \in RequestedTypes, d \in DateRanges, why \in Reasons :
          create_leave_request(id, t, d[1], d[2], why) /\ Quiet
    \/ \E id \in ReqIds, s \in LeaveStatus :
          update_leave_request_status(id, s) /\ Quiet
    \/ \E id \in EmpIds :
          Serve("get_employee_by_id", get_employee_by_id(id)) /\ Quiet
    \/ \E id \in EmpIds :
          Serve("get_employee_leave_balance", get_employee_leave_balance(id)) /\ Quiet
    \/ \E id \in EmpIds :
          Serve("get_employee_leave_requests", get_employee_leave_requests(id)) /\ Quiet

SpecReads == Init /\ [][NextReads]_vars

\* -------------------------------------- calculate_business_days on its own
InitDays ==
    /\ InitStore
    /\ calc \in [start_date : Days, end_date : Days, result : {-1}]

\* the call returns
return_business_days ==
    /\ calc.result = -1
    /\ calc' = [calc EXCEPT
                  !.result = calculate_business_days(calc.start_date, calc.end_date)]
    /\ UNCHANGED <<store, last, history, threads>>

\* the next call is made
call_business_days(start_date, end_date) ==
    /\ calc.result # -1
    /\ calc' = [start_date |-> start_date, end_date |-> end_date, result |-> -1]
    /\ UNCHANGED <<store, last, history, threads>>

NextDays ==
    \/ return_business_days
    \/ \E start_date, end_date \in Days : call_business_days(start_date, end_date)

SpecDays == InitDays /\ [][NextDays]_vars

\* --------------------------------- the same, with the history of the ids
NextIds ==
    \/ \E p \in Profiles :
          /\ create_employee(p)
          /\ assigned_ids' = assigned_ids \cup {NewEmployeeId}
          /\ UNCHANGED <<deleted_ids, approval, orphans, threads, calc>>
    \/ \E id \in EmpIds, p \in Profiles : update_employee(id, p) /\ Quiet
    \/ \E id \in EmpIds :
          /\ delete_employee(id)
          /\ deleted_ids' = IF find_employee(id) # 0
                            THEN deleted_ids \cup {id} ELSE deleted_ids
          /\ UNCHANGED <<assigned_ids, approval, orphans, threads, calc>>
    \/ \E id \in EmpIds, t \in RequestedTypes, d \in DateRanges, why \in Reasons :
          create_leave_request(id, t, d[1], d[2], why) /\ Quiet
    \/ \E id \in ReqIds, s \in LeaveStatus :
          update_leave_request_status(id, s) /\ Quiet

SpecIds == Init /\ [][NextIds]_vars

\* --------------------- the same, with the history of the orphaned requests
\* the requests made for an employee id
RequestsOf(employee_id) ==
    {leave_db[i].id : i \in {j \in 1..Len(leave_db) :
                                leave_db[j].employee_id = employee_id}}

NextOwners ==
    \/ \E p \in Profiles : create_employee(p) /\ Quiet
    \/ \E id \in EmpIds, p \in Profiles : update_employee(id, p) /\ Quiet
    \/ \E id \in EmpIds :
          /\ delete_employee(id)
          /\ orphans' = IF find_employee(id) # 0
                        THEN orphans \cup RequestsOf(id) ELSE orphans
          /\ UNCHANGED <<assigned_ids, deleted_ids, approval, threads, calc>>
    \/ \E id \in EmpIds, t \in RequestedTypes, d \in DateRanges, why \in Reasons :
          create_leave_request(id, t, d[1], d[2], why) /\ Quiet
    \/ \E id \in ReqIds, s \in LeaveStatus :
          update_leave_request_status(id, s) /\ Quiet

SpecOwners == Init /\ [][NextOwners]_vars

\* ----------------------------- the same, with the history of the approvals
\* used of the balance that update_leave_request_status resolves for a request
ResolvedUsed(request_id) ==
    LET req == leave_db[FirstWithId(leave_db, request_id)]
    IN  employee_db[find_employee(req.employee_id)].leave_balances[req.leave_type].used

RecordApproval(request_id, new_status) ==
    LET out == UpdateStatus(employee_db, leave_db, request_id, new_status)
    IN  approval' =
          IF out.err = OK /\ is_newly_approved(new_status, out.old)
          THEN [id |-> request_id, used |-> ResolvedUsed(request_id)]
          ELSE IF /\ out.err = OK
                  /\ was_previously_approved(new_status, out.old)
                  /\ approval.id = request_id
          THEN NoApproval
          ELSE approval

NextApprovals ==
    \/ \E p \in Profiles : create_employee(p) /\ Quiet
    \/ \E id \in EmpIds, p \in Profiles : update_employee(id, p) /\ Quiet
    \/ \E id \in EmpIds : delete_employee(id) /\ Quiet
    \/ \E id \in EmpIds, t \in RequestedTypes, d \in DateRanges, why \in Reasons :
          create_leave_request(id, t, d[1], d[2], why) /\ Quiet
    \/ \E id \in ReqIds, s \in LeaveStatus :
          /\ update_leave_request_status(id, s)
          /\ RecordApproval(id, s)
          /\ UNCHANGED <<assigned_ids, deleted_ids, orphans, threads, calc>>

SpecApprovals == Init /\ [][NextApprovals]_vars

\* ------------------------------- update_leave_request_status, concurrently
\* The handler is a plain def, so the server runs each call on a worker
\* thread; nothing in the handler takes a lock.  Each thread serves one call,
\* in the steps below.  The leave handlers run one at a time until the first
\* concurrent call arrives.
Threads == 1..NumThreads

AllIdle == \A t \in Threads : pc[t] = "idle"
AllDone == \A t \in Threads : pc[t] = "done"

Goto(t, label, locals) ==
    /\ pc' = [pc EXCEPT ![t] = label]
    /\ loc' = [loc EXCEPT ![t] = locals]

\* lines 187-198: look the request and its employee up, price the request
t_begin(t, request_id, new_status) ==
    LET r == FirstWithId(leave_db, request_id)
        e == IF r = 0 THEN 0 ELSE find_employee(leave_db[r].employee_id)
        args == [Idle EXCEPT !.request_id = request_id, !.status = new_status]
    IN  /\ pc[t] = "idle"
        /\ store0' = IF AllIdle THEN store ELSE store0
        /\ IF r = 0 \/ e = 0
           THEN Goto(t, "done", [args EXCEPT !.err = NotFound])
           ELSE Goto(t, "check", [args EXCEPT !.req = r, !.emp = e,
                                              !.duration = Duration(leave_db[r])])
        /\ UNCHANGED <<store, last, history, calc>>

ThreadBalance(t) ==
    employee_db[loc[t].emp].leave_balances[leave_db[loc[t].req].leave_type]

\* lines 201-207 and the tests of lines 204 and 209
t_check(t) ==
    LET old == leave_db[loc[t].req].status
        new == loc[t].status
    IN  /\ pc[t] = "check"
        /\ IF is_newly_approved(new, old)
           THEN IF remaining(ThreadBalance(t)) < loc[t].duration
                THEN Goto(t, "done", [loc[t] EXCEPT !.err = InsufficientBalance])
                ELSE Goto(t, "credit", loc[t])
           ELSE IF was_previously_approved(new, old)
                THEN Goto(t, "reclaim", loc[t])
                ELSE Goto(t, "commit", loc[t])
        /\ UNCHANGED <<store, last, history, calc, store0>>

\* lines 208 and 211, the read of balance.used by += and -=
t_load(t) ==
    /\ pc[t] \in {"credit", "reclaim"}
    /\ Goto(t, IF pc[t] = "credit" THEN "add" ELSE "sub",
            [loc[t] EXCEPT !.used = ThreadBalance(t).used])
    /\ UNCHANGED <<store, last, history, calc, store0>>

\* lines 208 and 211, the write of balance.used by += and -=
t_store(t) ==
    /\ pc[t] \in {"add", "sub"}
    /\ employee_db' =
          [employee_db EXCEPT
             ![loc[t].emp].leave_balances[leave_db[loc[t].req].leave_type].used =
                 IF pc[t] = "add" THEN loc[t].used + loc[t].duration
                                  ELSE loc[t].used - loc[t].duration]
    /\ Goto(t, "commit", loc[t])
    /\ UNCHANGED <<leave_db, last, history, calc, store0>>

\* line 213
t_commit(t) ==
    /\ pc[t] = "commit"
    /\ leave_db' = [leave_db EXCEPT ![loc[t].req].status = loc[t].status]
    /\ Goto(t, "done", [loc[t] EXCEPT !.err = OK])
    /\ UNCHANGED <<employee_db, last, history, calc, store0>>

NextConc ==
    \/ /\ AllIdle
       /\ \E id \in EmpIds, t \in RequestedTypes, d \in DateRanges, why \in Reasons :
             create_leave_request(id, t, d[1], d[2], why)
       /\ Quiet
    \/ /\ AllIdle
       /\ \E id \in ReqIds, s \in LeaveStatus : update_leave_request_status(id, s)
       /\ Quiet
    \/ \E t \in Threads, id \in ReqIds, s \in LeaveStatus : t_begin(t, id, s)
    \/ \E t \in Threads : t_check(t)
    \/ \E t \in Threads : t_load(t)
    \/ \E t \in Threads : t_store(t)
    \/ \E t \in Threads : t_commit(t)

SpecConc == Init /\ [][NextConc]_vars

\* =================================================================== claims
UpdateOp == "update_leave_request_status"
CreateLeaveOp == "create_leave_request"

\* used of every balance of every record of the registry, by position
UsedOf(db) == [i \in 1..Len(db) |-> [t \in LeaveType |-> db[i].leave_balances[t].used]]
AllocatedOf(db) ==
    [i \in 1..Len(db) |-> [t \in LeaveType |-> db[i].leave_balances[t].allocated]]
StatusOf(db) == [i \in 1..Len(db) |-> db[i].status]

HasRequest(request_id) == request_id \in Ids(leave_db)
RequestOf(request_id) == leave_db[FirstWithId(leave_db, request_id)]
OwnerResolves(request_id) == RequestOf(request_id).employee_id \in Ids(employee_db)
\* allocated minus used of the balance a request is charged to
QuotaLeft(request_id) ==
    LET req == RequestOf(request_id)
        b == employee_db[find_employee(req.employee_id)].leave_balances[req.leave_type]
    IN  b.allocated - b.used

\* C1: in every reachable state every employee of the registry has
\* 0 <= used <= allocated in each of the three categories.
C1_UsedWithinAllocated ==
    \A i \in 1..Len(employee_db) : \A t \in LeaveType :
        /\ 0 <= employee_db[i].leave_balances[t].used
        /\ employee_db[i].leave_balances[t].used
              <= employee_db[i].leave_balances[t].allocated

\* C2: every id create_employee assigns is strictly greater than every id it
\* assigned before, so the id of a deleted employee is never assigned again.
C2_AssignedIdsIncrease ==
    [][\A p \in Profiles :
          (last'.op = "create_employee" /\ create_employee(p)) => \A i \in assigned_ids : NewEmployeeId > i]_vars

\* C3: asking to approve a request that is not Approved and whose duration
\* exceeds the remaining quota of its employee's category fails with
\* InsufficientBalance and changes no request's status and no balance's used.
C3_FailedApprovalChangesNothing ==
    [][\A id \in ReqIds :
          ( /\ last'.op = UpdateOp /\ last'.new = APPROVED
            /\ update_leave_request_status(id, APPROVED)
            /\ HasRequest(id)
            /\ RequestOf(id).status # APPROVED
            /\ OwnerResolves(id)
            /\ Duration(RequestOf(id)) > QuotaLeft(id) )
          => /\ last'.err = InsufficientBalance
             /\ StatusOf(leave_db') = StatusOf(leave_db)
             /\ UsedOf(employee_db') = UsedOf(employee_db)]_vars

C3_Witness ==
    /\ last = Call(UpdateOp, APPROVED, PENDING, InsufficientBalance)
    /\ \E id \in Ids(leave_db) :
          /\ RequestOf(id).status = PENDING
          /\ OwnerResolves(id)
          /\ Duration(RequestOf(id)) > QuotaLeft(id)

\* C4: approving a Pending request whose duration is at most the remaining
\* quota succeeds and adds exactly the duration to used of that category; an
\* update to Approved of a request that is already Approved changes no used.
C4_ApprovalCreditsOnce ==
    [][\A id \in ReqIds :
          ( /\ last'.op = UpdateOp /\ last'.new = APPROVED
            /\ update_leave_request_status(id, APPROVED)
            /\ HasRequest(id) )
          => /\ ( /\ RequestOf(id).status = PENDING
                  /\ OwnerResolves(id)
                  /\ Duration(RequestOf(id)) <= QuotaLeft(id) )
                => /\ last'.err = OK
                   /\ ResolvedUsed(id)' = ResolvedUsed(id) + Duration(RequestOf(id))
             /\ RequestOf(id).status = APPROVED
                => UsedOf(employee_db') = UsedOf(employee_db)]_vars

\* a request created by a call is Approved, and the last call approved again
\* a request that was Approved already
C4_Witness ==
    /\ last = Call(UpdateOp, APPROVED, APPROVED, OK)
    /\ \E i \in 1..Len(leave_db) : leave_db[i].id > 1 /\ leave_db[i].status = APPROVED

\* C5 as stated: moving an Approved request to Rejected or Pending leaves used
\* at the value it had immediately before that request was approved.
C5_ReclaimRestoresPreApprovalUsed ==
    [][\A id \in ReqIds : \A s \in {REJECTED, PENDING} :
          ( /\ last'.op = UpdateOp /\ last'.err = OK
            /\ approval.id = id
            /\ update_leave_request_status(id, s) )
          => ResolvedUsed(id)' = approval.used]_vars

\* C5, amended: moving an Approved request whose employee resolves to Rejected
\* or Pending succeeds and subtracts exactly the duration from used of the
\* balance it resolves; when that call directly follows the call that moved
\* the request from Pending to Approved, used is back at its value before the
\* two calls.
C5_ReclaimExactAndCycle ==
    [][\A id \in ReqIds : \A s \in {REJECTED, PENDING} :
          ( /\ last'.op = UpdateOp /\ last'.new = s
            /\ update_leave_request_status(id, s)
            /\ HasRequest(id)
            /\ RequestOf(id).status = APPROVED
            /\ OwnerResolves(id) )
          => /\ last'.err = OK
             /\ ResolvedUsed(id)' = ResolvedUsed(id) - Duration(RequestOf(id))
             /\ (last = Call(UpdateOp, APPROVED, PENDING, OK) /\ approval.id = id)
                => ResolvedUsed(id)' = approval.used]_vars

\* a request was approved by a call, and the last call moved it on to Rejected
C5_Witness ==
    /\ last = Call(UpdateOp, REJECTED, APPROVED, OK)
    /\ approval = NoApproval
    /\ \E i \in 1..Len(leave_db) : leave_db[i].id > 1 /\ leave_db[i].status = REJECTED

\* C6: create_leave_request, succeeding or failing, changes no balance of any
\* employee; whenever used of an employee grows, the call was a successful
\* update_leave_request_status to Approved of a request not yet Approved.
C6_CreateLeavesLedgerAlone ==
    [][ /\ last'.op = CreateLeaveOp
           => /\ UsedOf(employee_db') = UsedOf(employee_db)
              /\ AllocatedOf(employee_db') = AllocatedOf(employee_db)
        /\ (\E i \in 1..Len(employee_db), j \in 1..Len(employee_db'), t \in LeaveType :
               /\ employee_db[i].id = employee_db'[j].id
               /\ employee_db'[j].leave_balances[t].used
                     > employee_db[i].leave_balances[t].used)
           => /\ last'.op = UpdateOp /\ last'.new = APPROVED
              /\ last'.old # APPROVED /\ last'.err = OK ]_vars

\* a request was just created for an employee who has used quota
C6_Witness ==
    /\ last = Call(CreateLeaveOp, "-", "-", OK)
    /\ leave_db[Len(leave_db)].status = PENDING
    /\ \E i \in 1..Len(employee_db) : \E t \in LeaveType :
          /\ employee_db[i].id = leave_db[Len(leave_db)].employee_id
          /\ employee_db[i].leave_balances[t].used > 0

\* C7: create_leave_request succeeds exactly when the employee id resolves,
\* the business-day duration is at least 1 and the remaining quota of the
\* category is at least the duration; then one Pending request is appended.
\* Otherwise it fails with NotFound, else InvalidRange, else
\* InsufficientBalance, and the request store is unchanged.
C7_CreateLeaveOutcome ==
    [][\A id \in EmpIds, t \in RequestedTypes, d \in DateRanges, why \in Reasons :
          (last'.op = CreateLeaveOp /\ create_leave_request(id, t, d[1], d[2], why))
          => LET known == id \in Ids(employee_db)
                 dur == calculate_business_days(d[1], d[2])
                 b == employee_db[find_employee(id)].leave_balances[t]
                 enough == b.allocated - b.used >= dur
             IN  /\ last'.err = OK <=> (known /\ dur >= 1 /\ enough)
                 /\ last'.err = OK
                    => /\ Len(leave_db') = Len(leave_db) + 1
                       /\ SubSeq(leave_db', 1, Len(leave_db)) = leave_db
                       /\ leave_db'[Len(leave_db')].status = PENDING
                       /\ leave_db'[Len(leave_db')].employee_id = id
                       /\ leave_db'[Len(leave_db')].leave_type = t
                       /\ leave_db'[Len(leave_db')].start_date = d[1]
                       /\ leave_db'[Len(leave_db')].end_date = d[2]
                 /\ last'.err # OK => leave_db' = leave_db
                 /\ ~known => last'.err = NotFound
                 /\ (known /\ dur < 1) => last'.err = InvalidRange
                 /\ (known /\ dur >= 1 /\ ~enough) => last'.err = InsufficientBalance]_vars

C7_Witness ==
    /\ last = Call(CreateLeaveOp, "-", "-", InsufficientBalance)
    /\ Len(leave_db) < MaxRequests

\* C8: when the concurrent calls approve different Pending requests of one
\* employee and category, the store they leave is the store some serial order
\* of the calls leaves.
RECURSIVE SerialRun(_, _, _)
SerialRun(edb, ldb, calls) ==
    IF calls = << >> THEN <<edb, ldb>>
    ELSE LET out == UpdateStatus(edb, ldb, loc[Head(calls)].request_id,
                                 loc[Head(calls)].status)
         IN  SerialRun(out.employee_db, out.leave_db, Tail(calls))

SerialOrders ==
    {o \in [Threads -> Threads] : \A a, b \in Threads : a # b => o[a] # o[b]}

ApproveDistinctPendingOfOneLedger ==
    /\ \A t \in Threads :
          /\ loc[t].status = APPROVED
          /\ loc[t].req # 0
          /\ store0[2][loc[t].req].status = PENDING
    /\ \A a, b \in Threads :
          /\ a # b => loc[a].req # loc[b].req
          /\ loc[a].emp = loc[b].emp
          /\ store0[2][loc[a].req].leave_type = store0[2][loc[b].req].leave_type

C8_ConcurrentApprovalsSerialize ==
    (AllDone /\ ApproveDistinctPendingOfOneLedger)
    => \E o \in SerialOrders : store = SerialRun(store0[1], store0[2], o)

\* C9: once delete_employee(id) has succeeded, get_employee_by_id(id) fails
\* with NotFound and no record of get_all_employees has that id.
C9_DeletedStaysGone ==
    \A id \in deleted_ids :
        /\ get_employee_by_id(id).err = NotFound
        /\ \A i \in 1..Len(get_all_employees) : get_all_employees[i].id # id

\* C10: delete_employee of an existing id removes exactly that record and
\* leaves every other record, and the whole leave request store, unchanged;
\* of a missing id it fails with NotFound and changes nothing.
C10_DeleteRemovesOneRecord ==
    [][\A id \in EmpIds :
          (last'.op = "delete_employee" /\ delete_employee(id))
          => IF id \in Ids(employee_db)
             THEN /\ last'.err = OK
                  /\ leave_db' = leave_db
                  /\ \E k \in 1..Len(employee_db) :
                        /\ employee_db[k].id = id
                        /\ employee_db' =
                              SubSeq(employee_db, 1, k - 1)
                                 \o SubSeq(employee_db, k + 1, Len(employee_db))
             ELSE /\ last'.err = NotFound
                  /\ store' = store]_vars

\* an employee was just deleted, another is still there, and a request still
\* refers to an id that is not in the registry
C10_Witness ==
    /\ last = Call("delete_employee", "-", "-", OK)
    /\ Len(employee_db) >= 1
    /\ \E i \in 1..Len(leave_db) : leave_db[i].employee_id \notin Ids(employee_db)

\* C11: update_employee of an existing id writes the payload's name, position
\* and department on that employee and changes nothing else: not its id, not
\* its balances, no other employee, no leave request; of a missing id it fails
\* with NotFound and changes nothing.
C11_UpdateEmployeeFrame ==
    [][\A id \in EmpIds, p \in Profiles :
          (last'.op = "update_employee" /\ update_employee(id, p))
          => IF id \in Ids(employee_db)
             THEN /\ last'.err = OK
                  /\ leave_db' = leave_db
                  /\ Len(employee_db') = Len(employee_db)
                  /\ \A i \in 1..Len(employee_db) :
                        /\ employee_db'[i].id = employee_db[i].id
                        /\ employee_db'[i].leave_balances = employee_db[i].leave_balances
                        /\ IF employee_db[i].id = id
                           THEN /\ employee_db'[i].name = p.name
                                /\ employee_db'[i].position = p.position
                                /\ employee_db'[i].department = p.department
                           ELSE employee_db'[i] = employee_db[i]
             ELSE /\ last'.err = NotFound
                  /\ store' = store]_vars

\* the employee seeded with used quota was just given another profile
C11_Witness ==
    /\ last = Call("update_employee", "-", "-", OK)
    /\ \E i \in 1..Len(employee_db) : \E p \in Profiles :
          /\ employee_db[i].id = 2
          /\ employee_db[i].name = p.name
          /\ employee_db[i].name # SeedEmployees[2].name
          /\ employee_db[i].leave_balances.vacation.used > 0

\* the outcome of a call made with an employee id
NotFoundIffUnknown(id) ==
    /\ last'.err = NotFound <=> id \notin Ids(employee_db)
    /\ last'.err = NotFound => store' = store

\* C12: each of get_employee_by_id, update_employee, delete_employee,
\* get_employee_leave_balance, create_leave_request and
\* get_employee_leave_requests fails with NotFound exactly when no employee of
\* the registry has the id it is called with, and then changes neither the
\* registry, nor a balance, nor the request store.
C12_NotFoundIffUnknownId ==
    [][\A id \in EmpIds :
          /\ ( /\ last'.op = "get_employee_by_id"
               /\ Serve("get_employee_by_id", get_employee_by_id(id)) )
             => NotFoundIffUnknown(id)
          /\ ( /\ last'.op = "update_employee"
               /\ \E p \in Profiles : update_employee(id, p) )
             => NotFoundIffUnknown(id)
          /\ ( /\ last'.op = "delete_employee"
               /\ delete_employee(id) )
             => NotFoundIffUnknown(id)
          /\ ( /\ last'.op = "get_employee_leave_balance"
               /\ Serve("get_employee_leave_balance", get_employee_leave_balance(id)) )
             => NotFoundIffUnknown(id)
          /\ ( /\ last'.op = CreateLeaveOp
               /\ \E t \in RequestedTypes, d \in DateRanges, why \in Reasons :
                     create_leave_request(id, t, d[1], d[2], why) )
             => NotFoundIffUnknown(id)
          /\ ( /\ last'.op = "get_employee_leave_requests"
               /\ Serve("get_employee_leave_requests", get_employee_leave_requests(id)) )
             => NotFoundIffUnknown(id)]_vars

\* the requests of an employee who was deleted were just asked for
C12_Witness ==
    /\ last = Call("get_employee_leave_requests", "-", "-", NotFound)
    /\ Len(employee_db) >= 1
    /\ \E i \in 1..Len(leave_db) : leave_db[i].employee_id \notin Ids(employee_db)

\* C13: calculate_business_days(start, end) is the number of days d with
\* start <= d <= end whose day of the week (d mod 7) is Monday to Friday when
\* start <= end, and 0 when start > end; a range of Saturdays and Sundays
\* only gives 0.
C13_BusinessDaysIsWeekdayCount ==
    calc.result # -1
    => LET s == calc.start_date
           e == calc.end_date
       IN  /\ s <= e => calc.result = Cardinality({d \in s..e : d % 7 \in 0..4})
           /\ s > e => calc.result = 0
           /\ (s <= e /\ \A d \in s..e : d % 7 \in {5, 6}) => calc.result = 0

\* Friday to Tuesday of the next week: three business days around a weekend
C13_Witness ==
    calc = [start_date |-> 4, end_date |-> 8, result |-> 3]

\* the total duration of the requests of ldb that are Approved for an employee
\* id and a category
RECURSIVE SumDays(_)
SumDays(reqs) ==
    IF reqs = << >> THEN 0 ELSE Duration(Head(reqs)) + SumDays(Tail(reqs))

ApprovedDays(ldb, id, t) ==
    SumDays(SelectSeq(ldb, LAMBDA req : /\ req.employee_id = id
                                        /\ req.leave_type = t
                                        /\ req.status = APPROVED))

\* used of an employee id and a category in the initial state (0 for an id
\* that has no employee then)
SeedUsed(id, t) ==
    LET e == FirstWithId(SeedEmployees, id)
    IN  IF e = 0 THEN 0 ELSE SeedEmployees[e].leave_balances[t].used

\* C14: in every reachable state, for every employee of the registry and every
\* category, used minus its initial value equals the total duration of the
\* requests now Approved for that employee id and category minus the initial
\* value of that total.
C14_UsedPairsWithApproved ==
    \A i \in 1..Len(employee_db) : \A t \in LeaveType :
        employee_db[i].leave_balances[t].used - SeedUsed(employee_db[i].id, t)
          = ApprovedDays(leave_db, employee_db[i].id, t)
              - ApprovedDays(SeedLeaves, employee_db[i].id, t)

\* C15: update_leave_request_status of a request whose employee resolves, to
\* a status equal to the old one or with neither the old nor the new status
\* Approved, succeeds whatever quota is left, changes no employee and writes
\* nothing but the new status of that one request.
C15_NoLedgerMutationOtherwise ==
    [][\A id \in ReqIds, s \in LeaveStatus :
          ( /\ last'.op = UpdateOp /\ last'.new = s
            /\ update_leave_request_status(id, s)
            /\ HasRequest(id)
            /\ OwnerResolves(id)
            /\ \/ RequestOf(id).status = s
               \/ (RequestOf(id).status # APPROVED /\ s # APPROVED) )
          => /\ last'.err = OK
             /\ employee_db' = employee_db
             /\ leave_db' = [leave_db EXCEPT ![FirstWithId(leave_db, id)].status = s]]_vars

\* a Pending request longer than the quota left was just rejected
C15_Witness ==
    /\ last = Call(UpdateOp, REJECTED, PENDING, OK)
    /\ \E id \in Ids(leave_db) :
          /\ RequestOf(id).status = REJECTED
          /\ OwnerResolves(id)
          /\ Duration(RequestOf(id)) > QuotaLeft(id)

\* C16: update_leave_request_status of a request whose employee was deleted
\* after the request was made changes used of no employee of the registry,
\* whatever employees were created since.
C16_OrphanedRequestTouchesNoBalance ==
    [][\A id \in ReqIds, s \in LeaveStatus :
          ( /\ last'.op = UpdateOp
            /\ update_leave_request_status(id, s)
            /\ id \in orphans )
          => UsedOf(employee_db') = UsedOf(employee_db)]_vars

\* C17: update_leave_request_status of a request whose employee_id is the id
\* of no employee of the registry fails with NotFound for every target status
\* and changes no status and no balance; so does the call for a request id
\* that no request has.
C17_UnresolvedOwnerIsNotFound ==
    [][\A id \in ReqIds, s \in LeaveStatus :
          ( /\ last'.op = UpdateOp /\ last'.new = s
            /\ update_leave_request_status(id, s)
            /\ (~HasRequest(id) \/ ~OwnerResolves(id)) )
          => /\ last'.err = NotFound
             /\ store' = store]_vars

\* the last call asked to reject a Pending request of a deleted employee
C17_Witness ==
    /\ last = Call(UpdateOp, REJECTED, PENDING, NotFound)
    /\ Len(employee_db) >= 1
    /\ \E id \in Ids(leave_db) :
          RequestOf(id).status = PENDING /\ ~OwnerResolves(id)

PairwiseDistinctIds(db) ==
    \A i, j \in 1..Len(db) : i # j => db[i].id # db[j].id

\* C18: the ids of the requests of leave_db are pairwise distinct in every
\* reachable state; no call removes a request, and a successful
\* create_leave_request appends a request whose id is greater than the id of
\* every request made before; a failed one leaves the store, and so the next
\* id, as they were.
C18_RequestIdsIncrease ==
    [][ /\ PairwiseDistinctIds(leave_db)
        /\ PairwiseDistinctIds(leave_db')
        /\ Ids(leave_db) \subseteq Ids(leave_db')
        /\ ( /\ last'.op = CreateLeaveOp
             /\ \E id \in EmpIds, t \in RequestedTypes, d \in DateRanges, why \in Reasons :
                   create_leave_request(id, t, d[1], d[2], why) )
           => IF last'.err = OK
              THEN /\ Len(leave_db') = Len(leave_db) + 1
                   /\ SubSeq(leave_db', 1, Len(leave_db)) = leave_db
                   /\ \A i \in Ids(leave_db) : leave_db'[Len(leave_db')].id > i
              ELSE /\ leave_db' = leave_db
                   /\ NewRequestId' = NewRequestId ]_vars

\* a request was just made after the seeded one
C18_Witness ==
    /\ last = Call(CreateLeaveOp, "-", "-", OK)
    /\ Len(leave_db) >= 2
    /\ leave_db[Len(leave_db)].id > leave_db[1].id

\* C19: while one call of update_leave_request_status is being served and no
\* other is, a read never returns a used that differs from the one before the
\* call for a request whose status it still returns as the one before the call.
C19_ReadsSeeNoTornTransition ==
    \A t \in Threads :
        ( /\ pc[t] # "idle"
          /\ \A u \in Threads \ {t} : pc[u] = "idle"
          /\ loc[t].req # 0 /\ loc[t].emp # 0 )
        => LET req0 == store0[2][loc[t].req]
               emp0 == store0[1][loc[t].emp]
           IN  get_all_leave_requests("-")[loc[t].req].status = req0.status
               => get_employee_leave_balance(emp0.id).value[req0.leave_type].used
                     = emp0.leave_balances[req0.leave_type].used

====
